---- MODULE Spec2Model ----
(***************************************************************************)
(* Model of main.py: the lyric document (parse_lrc, bisect lookup), the    *)
(* lyrics source (fetch_lyrics with its file cache) and the poll loop of   *)
(* LyricsWorker.main_loop.                                                 *)
(*                                                                         *)
(* A Python str is a sequence of one-character strings.  Times are         *)
(* integers in centiseconds (1 second = 100).                              *)
(***************************************************************************)
EXTENDS Integers, Sequences, FiniteSets, TLC

----------------------------------------------------------------------------
(* Bounds *)

\* network requests issued in one behaviour
MaxNet == 2
\* wall-clock readings are 0, 1, .., MaxClock seconds
MaxClock == 3
\* lines of a raw text of the document specification
MaxLines == 3
\* query positions of the lookup check are -50, 0, 50, .., 50 * MaxQuery
MaxQuery == 7

----------------------------------------------------------------------------
(* Characters and strings *)

\* the characters of the model in code point order
Ascii ==
  << "\n", "\r", " ", "-", ".", "0", "1", "2", "3", "4", "5", "6", "7", "8",
     "9", ":", "A", "B", "N", "S", "W", "[", "]", "_", "a", "b", "c", "e",
     "f", "g", "h", "i", "j", "l", "n", "o", "p", "r", "s", "t", "v", "y" >>

Ord(c) == CHOOSE i \in 1..Len(Ascii) : Ascii[i] = c

Digits == <<"0", "1", "2", "3", "4", "5", "6", "7", "8", "9">>

IsDigit(c) == \E i \in 1..10 : Digits[i] = c

DigitVal(c) == (CHOOSE i \in 1..10 : Digits[i] = c) - 1

Whitespace == {" ", "\n", "\r"}

\* str.lower() on one character
LowerChar(c) ==
  CASE c = "A" -> "a"
    [] c = "B" -> "b"
    [] c = "N" -> "n"
    [] c = "S" -> "s"
    [] c = "W" -> "w"
    [] OTHER -> c

Lower(s) == [i \in 1..Len(s) |-> LowerChar(s[i])]

\* str.replace(old, new) for one-character old and new
Replace(s, old, new) == [i \in 1..Len(s) |-> IF s[i] = old THEN new ELSE s[i]]

\* the character at index i, or "" past the end
At(s, i) == IF i \in 1..Len(s) THEN s[i] ELSE ""

\* Python's < on str: lexicographic by code point
RECURSIVE StrLess(_, _)
StrLess(s, t) ==
  IF t = <<>> THEN FALSE
  ELSE IF s = <<>> THEN TRUE
  ELSE IF s[1] # t[1] THEN Ord(s[1]) < Ord(t[1])
  ELSE StrLess(Tail(s), Tail(t))

\* needle in s
Contains(s, needle) ==
  \E i \in 0..(Len(s) - Len(needle)) : SubSeq(s, i + 1, i + Len(needle)) = needle

\* str.strip()
RECURSIVE Strip(_)
Strip(s) ==
  IF s = <<>> THEN s
  ELSE IF s[1] \in Whitespace THEN Strip(Tail(s))
  ELSE IF s[Len(s)] \in Whitespace THEN Strip(SubSeq(s, 1, Len(s) - 1))
  ELSE s

\* str.splitlines(): breaks at \r\n, \n and \r; no trailing empty line
RECURSIVE SplitFrom(_, _, _)
SplitFrom(s, i, cur) ==
  IF i > Len(s) THEN (IF cur = <<>> THEN <<>> ELSE <<cur>>)
  ELSE IF s[i] = "\r" /\ At(s, i + 1) = "\n" THEN <<cur>> \o SplitFrom(s, i + 2, <<>>)
  ELSE IF s[i] \in {"\n", "\r"} THEN <<cur>> \o SplitFrom(s, i + 1, <<>>)
  ELSE SplitFrom(s, i + 1, Append(cur, s[i]))

splitlines(s) == SplitFrom(s, 1, <<>>)

\* int() of a string of digits
RECURSIVE IntOf(_)
IntOf(ds) ==
  IF ds = <<>> THEN 0 ELSE 10 * IntOf(SubSeq(ds, 1, Len(ds) - 1)) + DigitVal(ds[Len(ds)])

\* float() of "whole.frac" in centiseconds (exact for at most two fraction digits)
FloatOf(whole, frac) ==
  100 * IntOf(whole) + 10 * DigitVal(frac[1])
    + (IF Len(frac) >= 2 THEN DigitVal(frac[2]) ELSE 0)

----------------------------------------------------------------------------
(* parse_lrc *)

\* the index after the longest run of digits that starts at i
RECURSIVE DigitsEnd(_, _)
DigitsEnd(s, i) == IF IsDigit(At(s, i)) THEN DigitsEnd(s, i + 1) ELSE i

\* pattern.match(line) for \[(\d+):(\d+\.\d+)\](.*) : the groups, all "" on no match
Match(line) ==
  LET b == DigitsEnd(line, 2)
      c == DigitsEnd(line, b + 1)
      d == DigitsEnd(line, c + 1)
      ok == /\ At(line, 1) = "["
            /\ b > 2 /\ At(line, b) = ":"
            /\ c > b + 1 /\ At(line, c) = "."
            /\ d > c + 1 /\ At(line, d) = "]"
  IN  IF ok
      THEN [ok |-> TRUE, m |-> SubSeq(line, 2, b - 1), whole |-> SubSeq(line, b + 1, c - 1),
            frac |-> SubSeq(line, c + 1, d - 1), text |-> SubSeq(line, d + 1, Len(line))]
      ELSE [ok |-> FALSE, m |-> <<>>, whole |-> <<>>, frac |-> <<>>, text |-> <<>>]

\* lyrics_data: the (timestamp, text) pair of every matching line, in file order
RECURSIVE LyricsData(_)
LyricsData(lines) ==
  IF lines = <<>> THEN <<>>
  ELSE LET g == Match(lines[1])
       IN  (IF g.ok
            THEN << <<(IntOf(g.m) * 60 * 100) + FloatOf(g.whole, g.frac), Strip(g.text)>> >>
            ELSE <<>>) \o LyricsData(Tail(lines))

\* Python's < on the (float, str) tuples
TupleLess(x, y) == x[1] < y[1] \/ (x[1] = y[1] /\ StrLess(x[2], y[2]))

\* x put into the sorted sequence s after every element that is not greater
RECURSIVE Insert(_, _)
Insert(s, x) ==
  IF s = <<>> THEN <<x>>
  ELSE IF TupleLess(x, s[1]) THEN <<x>> \o s
  ELSE <<s[1]>> \o Insert(Tail(s), x)

\* sorted(lyrics_data): stable, ascending by the tuples' own order
RECURSIVE sorted(_)
sorted(s) == IF s = <<>> THEN <<>> ELSE Insert(sorted(SubSeq(s, 1, Len(s) - 1)), s[Len(s)])

parse_lrc(lrc_text) == sorted(LyricsData(splitlines(lrc_text)))

----------------------------------------------------------------------------
(* The lookup of the position check *)

Sentinel == <<".", ".", ".">>

\* bisect.bisect_right(a, x): the 0-based insertion index after every entry <= x
RECURSIVE BisectRightFrom(_, _, _, _)
BisectRightFrom(a, x, lo, hi) ==
  IF lo < hi
  THEN LET mid == (lo + hi) \div 2
       IN  IF x < a[mid + 1] THEN BisectRightFrom(a, x, lo, mid)
           ELSE BisectRightFrom(a, x, mid + 1, hi)
  ELSE lo

\* bisect_left in the place of bisect_right
RECURSIVE BisectLeftFrom(_, _, _, _)
BisectLeftFrom(a, x, lo, hi) ==
  IF lo < hi
  THEN LET mid == (lo + hi) \div 2
       IN  IF a[mid + 1] < x THEN BisectLeftFrom(a, x, mid + 1, hi)
           ELSE BisectLeftFrom(a, x, lo, mid)
  ELSE lo

bisect_left(a, x) == BisectLeftFrom(a, x, 0, Len(a))

bisect_right(a, x) == BisectRightFrom(a, x, 0, Len(a))

\* new_lyric of lines 92-93 (parsed_lyrics[idx-1] is 0-based)
NewLyric(parsed, ts, true_pos) ==
  LET idx == bisect_right(ts, true_pos)
  IN  IF idx > 0 THEN parsed[idx][2] ELSE Sentinel

\* the position of the snapshot without the elapsed time
TruePosStale(position, last_updated, now) == position

\* true_pos of lines 90-91
TruePos(position, last_updated, now) == position + (now - last_updated)

\* playback_status value that line 88 takes as playing
Playing == 4

\* the position check without the test of line 88
PositionCheckAlways(parsed, ts, cur, status, position, last_updated, now) ==
  LET new_lyric == NewLyric(parsed, ts, TruePos(position, last_updated, now))
  IN  [text |-> new_lyric, emits |-> IF new_lyric # cur THEN <<new_lyric>> ELSE <<>>]

\* lines 88-96: the current line and the notifications of the position check
PositionCheck(parsed, ts, cur, status, position, last_updated, now) ==
  IF status = Playing
  THEN LET new_lyric == NewLyric(parsed, ts, TruePos(position, last_updated, now))
       IN  [text |-> new_lyric, emits |-> IF new_lyric # cur THEN <<new_lyric>> ELSE <<>>]
  ELSE [text |-> cur, emits |-> <<>>]

----------------------------------------------------------------------------
(* fetch_lyrics *)

\* Python None
NoneVal == <<"None">>

\* truth value of a str-or-None
Truthy(v) == v # NoneVal /\ v # <<>>

\* line 15 (the cache directory prefix of line 16 is the same for every file)
Filename(artist, title) ==
  Lower(Replace(artist \o <<"_">> \o title, " ", "_")) \o <<".", "l", "r", "c">>

\* f.write(lyrics) on a file opened in text mode: \n becomes os.linesep (\r\n on
\* the platform of winrt)
RECURSIVE WriteText(_)
WriteText(s) ==
  IF s = <<>> THEN <<>>
  ELSE (IF s[1] = "\n" THEN <<"\r", "\n">> ELSE <<s[1]>>) \o WriteText(Tail(s))

\* f.read() on a file opened in text mode: \r\n and \r become \n
RECURSIVE ReadText(_)
ReadText(b) ==
  IF b = <<>> THEN <<>>
  ELSE IF b[1] = "\r" /\ At(b, 2) = "\n" THEN <<"\n">> \o ReadText(SubSeq(b, 3, Len(b)))
  ELSE IF b[1] = "\r" THEN <<"\n">> \o ReadText(Tail(b))
  ELSE <<b[1]>> \o ReadText(Tail(b))

\* line 18
CacheHit(files, artist, title, album, duration) == Filename(artist, title) \in DOMAIN files

\* lines 19-20
ReadCache(files, artist, title) == ReadText(files[Filename(artist, title)])

\* lines 24-35: the value returned for a reply of the lyrics provider
FetchReturn(o) ==
  IF o.kind = "resp" /\ o.status = 200 /\ Truthy(o.synced) THEN o.synced ELSE NoneVal

\* a cache that keeps only the file written last
CacheAfterOnly(files, artist, title, o) ==
  IF o.kind = "resp" /\ o.status = 200 /\ Truthy(o.synced)
  THEN [k \in {Filename(artist, title)} |-> WriteText(o.synced)]
  ELSE files

\* a write without the test of line 30 for an empty text
CacheAfterEmpty(files, artist, title, o) ==
  IF o.kind = "resp" /\ o.status = 200 /\ o.synced # NoneVal
  THEN [k \in DOMAIN files \cup {Filename(artist, title)} |->
          IF k = Filename(artist, title) THEN WriteText(o.synced) ELSE files[k]]
  ELSE files

\* lines 30-32: the cache directory after the reply
CacheAfter(files, artist, title, o) ==
  IF o.kind = "resp" /\ o.status = 200 /\ Truthy(o.synced)
  THEN [k \in DOMAIN files \cup {Filename(artist, title)} |->
          IF k = Filename(artist, title) THEN WriteText(o.synced) ELSE files[k]]
  ELSE files

----------------------------------------------------------------------------
(* Inputs *)

TagA == <<"[", "0", ":", "1", ".", "0", "]">>

TagB == <<"[", "0", ":", "2", ".", "5", "]">>

TagC == <<"[", "0", ":", "3", ".", "5", "]">>

\* a line that does not match, \r\n and \n line ends, two lines of equal timestamp
\* in the order b, a, a text to strip, a line without text
LyricsSample ==
  <<"[", "a", "]", "\r", "\n">> \o TagA \o <<"b", "\r", "\n">> \o TagA \o <<"a", "\n">>
    \o TagB \o <<" ", "c", " ", "\n">> \o TagC

Lyrics == {LyricsSample}

Replies ==
  [kind : {"resp"}, status : {200}, synced : Lyrics \cup {<<>>, NoneVal}]
    \cup [kind : {"resp"}, status : {404}, synced : {NoneVal}]
    \cup [kind : {"error", "timeout"}, status : {0}, synced : {NoneVal}]

AppIds == {<<"S", "p", "o", "t", "i", "f", "y">>, <<"v", "l", "c">>}

\* (artist, title) pairs; the last two differ and contain the "-" of line 78
Tracks ==
  { << <<"a">>, <<"a">> >>,
    << <<"a">>, <<"a", "-", "b">> >>,
    << <<"b", "-", "a">>, <<"a">> >> }

Albums == {<<"a">>, <<"b">>}

EndTimes == {300}

Positions == {0, 150}

\* the capture time of the timeline; only now - last_updated enters line 90, so
\* the clock varies around one capture time
Captures == {100}

Clock == {100 * i : i \in 0..MaxClock}

Statuses == {4, 5}

\* the wall-clock readings of a poll: line 90 reads the clock only under line 88
Readings(status) == IF status = Playing THEN Clock ELSE {0}

----------------------------------------------------------------------------
(* The poll loop *)

VARIABLES
  last_id, parsed_lyrics, ts_list, curr_text, is_fetching,   \* locals of main_loop
  inflight,    \* the fetch_lyrics calls that have not returned, with props and timeline
  files,       \* the cache directory: filename -> file content
  netCalls,    \* requests sent to the lyrics provider
  fetched,     \* filename -> the text the provider returned when the file was written
  sink,        \* the notifications: the last one before the last step, those of the step
  op,          \* the last step
  poll,        \* the (artist, title) of the last poll and of the one before, fetches begun
  res,         \* the last resolve that returned
  chk,         \* the last position check; stale: before it ts_list and parsed_lyrics differed in length
  live,        \* the track the document was resolved for, the track the session reports
  failedKeys   \* the filenames of the resolves that returned None

vars ==
  << last_id, parsed_lyrics, ts_list, curr_text, is_fetching, inflight, files,
     netCalls, fetched, sink, op, poll, res, chk, live, failedKeys >>

Searching == <<"S", "e", "a", "r", "c", "h", "i", "n", "g", ".", ".", ".">>

NotSpotify == <<"N", "o", "t", " ", "S", "p", "o", "t", "i", "f", "y">>

Waiting ==
  << "W", "a", "i", "t", "i", "n", "g", " ", "f", "o", "r", " ",
     "S", "p", "o", "t", "i", "f", "y", ".", ".", "." >>

NoTrack == <<>>

NoRes == [key |-> <<>>, prior |-> FALSE, calls |-> 0, ret |-> <<>>]

NoChk == [ran |-> FALSE, status |-> 0, position |-> 0, last_updated |-> 0, now |-> 0,
          pre |-> <<>>, stale |-> FALSE]

\* the last of the notifications sent so far, if any
LastSent == IF sink.step # <<>> THEN <<sink.step[Len(sink.step)]>> ELSE sink.last

\* lyric_changed.emit for each of es, in order
Emit(es) == sink' = [last |-> LastSent, step |-> es]

\* line 78
SongId(artist, title) == title \o <<"-">> \o artist

\* line 68
IsSpotify(app) == Contains(Lower(app), <<"s", "p", "o", "t", "i", "f", "y">>)

\* line 80 with a retry while no lyrics are loaded
ShouldFetchRetry(song_id) == (song_id # last_id \/ parsed_lyrics = <<>>) /\ ~is_fetching

\* line 80
ShouldFetch(song_id) == song_id # last_id /\ ~is_fetching

\* the loop is suspended in the await of line 83 while a call has not returned
Suspended == inflight # <<>>

Init ==
  /\ last_id = <<>> /\ parsed_lyrics = <<>> /\ ts_list = <<>>
  /\ curr_text = <<>> /\ is_fetching = FALSE
  /\ inflight = <<>>
  /\ files = <<>>
  /\ netCalls = 0
  /\ fetched = <<>>
  /\ sink = [last |-> <<>>, step |-> <<>>]
  /\ op = "init"
  /\ poll = [cur |-> NoTrack, prev |-> NoTrack, starts |-> 0]
  /\ res = NoRes
  /\ chk = NoChk
  /\ live = [doc |-> NoTrack, session |-> NoTrack]
  /\ failedKeys = {}

\* lines 97-102: no session
PollNoSession ==
  /\ ~Suspended
  /\ IF curr_text # Waiting
     THEN Emit(<<Waiting>>) /\ curr_text' = Waiting
     ELSE Emit(<<>>) /\ UNCHANGED curr_text
  /\ last_id' = <<>> /\ parsed_lyrics' = <<>> /\ ts_list' = <<>>
  /\ op' = "nosession"
  /\ poll' = [cur |-> NoTrack, prev |-> poll.cur, starts |-> 0]
  /\ res' = NoRes /\ chk' = NoChk
  /\ live' = [doc |-> NoTrack, session |-> NoTrack]
  /\ UNCHANGED <<is_fetching, inflight, files, netCalls, fetched, failedKeys>>

\* line 72 clears the entries but not last_id
PollWrongSourceKeepId(app) ==
  /\ ~Suspended
  /\ ~IsSpotify(app)
  /\ IF curr_text # NotSpotify
     THEN Emit(<<NotSpotify>>) /\ curr_text' = NotSpotify
     ELSE Emit(<<>>) /\ UNCHANGED curr_text
  /\ parsed_lyrics' = <<>>
  /\ op' = "wrongsource"
  /\ poll' = [cur |-> NoTrack, prev |-> poll.cur, starts |-> 0]
  /\ res' = NoRes /\ chk' = NoChk
  /\ live' = [doc |-> NoTrack, session |-> NoTrack]
  /\ UNCHANGED <<last_id, ts_list, is_fetching, inflight, files, netCalls, fetched, failedKeys>>

\* lines 65-74: a session of another application
PollWrongSource(app) ==
  /\ ~Suspended
  /\ ~IsSpotify(app)
  /\ IF curr_text # NotSpotify
     THEN Emit(<<NotSpotify>>) /\ curr_text' = NotSpotify
     ELSE Emit(<<>>) /\ UNCHANGED curr_text
  /\ last_id' = <<>> /\ parsed_lyrics' = <<>>
  /\ op' = "wrongsource"
  /\ poll' = [cur |-> NoTrack, prev |-> poll.cur, starts |-> 0]
  /\ res' = NoRes /\ chk' = NoChk
  /\ live' = [doc |-> NoTrack, session |-> NoTrack]
  /\ UNCHANGED <<ts_list, is_fetching, inflight, files, netCalls, fetched, failedKeys>>

\* lines 84-85: the document and its timestamp index for the value fetch_lyrics returned
DocumentOf(raw) ==
  LET parsed == IF Truthy(raw) THEN parse_lrc(raw) ELSE <<>>
  IN  [parsed |-> parsed, ts |-> [i \in 1..Len(parsed) |-> parsed[i][1]]]

\* the texts the provider returns and the texts read back from the cache
KnownTexts == Lyrics \cup {ReadText(WriteText(l)) : l \in Lyrics}

\* DocumentOf of the known texts, computed once
KnownDocuments == [raw \in KnownTexts |-> DocumentOf(raw)]

Document(raw) == IF raw \in KnownTexts THEN KnownDocuments[raw] ELSE DocumentOf(raw)

\* line 86 clears is_fetching only when lyrics were found
InstallAndCheckKeepFlag(doc, before, status, position, last_updated, now) ==
  LET c == PositionCheck(doc.parsed, doc.ts, <<>>, status, position, last_updated, now)
  IN  /\ parsed_lyrics' = doc.parsed
      /\ ts_list' = doc.ts
      /\ is_fetching' = (is_fetching /\ doc.parsed = <<>>)
      /\ curr_text' = c.text
      /\ chk' = [ran |-> TRUE, status |-> status, position |-> position,
                 last_updated |-> last_updated, now |-> now, pre |-> <<>>,
                 stale |-> Len(ts_list) # Len(parsed_lyrics)]
      /\ Emit(before \o c.emits)

\* line 86 does not clear curr_text
InstallAndCheckKeepText(doc, before, status, position, last_updated, now) ==
  LET c == PositionCheck(doc.parsed, doc.ts, curr_text, status, position, last_updated, now)
  IN  /\ parsed_lyrics' = doc.parsed
      /\ ts_list' = doc.ts
      /\ is_fetching' = FALSE
      /\ curr_text' = c.text
      /\ chk' = [ran |-> TRUE, status |-> status, position |-> position,
                 last_updated |-> last_updated, now |-> now, pre |-> curr_text,
                 stale |-> Len(ts_list) # Len(parsed_lyrics)]
      /\ Emit(before \o c.emits)

\* lines 84-96: the document is installed, then the position check on the timeline
\* that was read before the call; before are the notifications of the same step
\* that line 82 has sent
InstallAndCheck(doc, before, status, position, last_updated, now) ==
  LET c == PositionCheck(doc.parsed, doc.ts, <<>>, status, position, last_updated, now)
  IN  /\ parsed_lyrics' = doc.parsed
      /\ ts_list' = doc.ts
      /\ is_fetching' = FALSE
      /\ curr_text' = c.text
      /\ chk' = [ran |-> TRUE, status |-> status, position |-> position,
                 last_updated |-> last_updated, now |-> now, pre |-> <<>>,
                 stale |-> Len(ts_list) # Len(parsed_lyrics)]
      /\ Emit(before \o c.emits)

\* lines 76-96 when line 80 starts no fetch
PollTracking(app, artist, title, status, position, last_updated, now) ==
  /\ ~Suspended
  /\ IsSpotify(app)
  /\ ~ShouldFetch(SongId(artist, title))
  /\ LET c == PositionCheck(parsed_lyrics, ts_list, curr_text, status, position,
                            last_updated, now)
     IN  /\ curr_text' = c.text
         /\ Emit(c.emits)
         /\ chk' = [ran |-> TRUE, status |-> status, position |-> position,
                    last_updated |-> last_updated, now |-> now, pre |-> curr_text,
                    stale |-> Len(ts_list) # Len(parsed_lyrics)]
  /\ op' = "track"
  /\ poll' = [cur |-> <<artist, title>>, prev |-> poll.cur, starts |-> 0]
  /\ res' = NoRes
  /\ live' = [live EXCEPT !.session = <<artist, title>>]
  /\ UNCHANGED <<last_id, parsed_lyrics, ts_list, is_fetching, inflight, files,
                 netCalls, fetched, failedKeys>>

\* lines 76-96 when line 80 starts a fetch that the cache answers: fetch_lyrics
\* returns at line 20 without suspending
PollTrackingCached(app, artist, title, album, duration) ==
  /\ ~Suspended
  /\ IsSpotify(app)
  /\ ShouldFetch(SongId(artist, title))
  /\ CacheHit(files, artist, title, album, duration)
  /\ last_id' = SongId(artist, title)
  /\ LET raw == ReadCache(files, artist, title)
         doc == Document(raw)
     IN  /\ res' = [key |-> Filename(artist, title),
                    prior |-> Filename(artist, title) \in DOMAIN fetched,
                    calls |-> netCalls, ret |-> raw]
         /\ failedKeys' = IF Truthy(raw) THEN failedKeys
                          ELSE failedKeys \cup {Filename(artist, title)}
         /\ \E status \in Statuses, position \in Positions, last_updated \in Captures :
              \E now \in Readings(status) :
                InstallAndCheck(doc, <<Searching>>, status, position, last_updated, now)
  /\ op' = "cached"
  /\ poll' = [cur |-> <<artist, title>>, prev |-> poll.cur, starts |-> 1]
  /\ live' = [live EXCEPT !.doc = <<artist, title>>, !.session = <<artist, title>>]
  /\ UNCHANGED <<inflight, files, netCalls, fetched>>

\* a fetch started as a task of its own, without the test of line 80 for one in flight
StartFetchUngated(app, artist, title, album, duration, position, last_updated) ==
  /\ IsSpotify(app)
  /\ SongId(artist, title) # last_id
  /\ ~CacheHit(files, artist, title, album, duration)
  /\ netCalls < MaxNet
  /\ last_id' = SongId(artist, title)
  /\ is_fetching' = TRUE
  /\ Emit(<<Searching>>)
  /\ inflight' = Append(inflight,
                        [artist |-> artist, title |-> title, album |-> album,
                         duration |-> duration, position |-> position,
                         last_updated |-> last_updated, calls |-> netCalls,
                         prior |-> Filename(artist, title) \in DOMAIN fetched])
  /\ netCalls' = netCalls + 1
  /\ op' = "start"
  /\ poll' = [cur |-> <<artist, title>>, prev |-> poll.cur, starts |-> 1]
  /\ res' = NoRes /\ chk' = NoChk
  /\ live' = [live EXCEPT !.session = <<artist, title>>]
  /\ UNCHANGED <<parsed_lyrics, ts_list, curr_text, files, fetched, failedKeys>>

\* lines 76-83 when line 80 starts a fetch that goes to the provider: the loop
\* is suspended in fetch_lyrics (line 26)
StartFetch(app, artist, title, album, duration, position, last_updated) ==
  /\ ~Suspended
  /\ IsSpotify(app)
  /\ ShouldFetch(SongId(artist, title))
  /\ ~CacheHit(files, artist, title, album, duration)
  /\ netCalls < MaxNet
  /\ last_id' = SongId(artist, title)
  /\ is_fetching' = TRUE
  /\ Emit(<<Searching>>)
  /\ inflight' = Append(inflight,
                        [artist |-> artist, title |-> title, album |-> album,
                         duration |-> duration, position |-> position,
                         last_updated |-> last_updated, calls |-> netCalls,
                         prior |-> Filename(artist, title) \in DOMAIN fetched])
  /\ netCalls' = netCalls + 1
  /\ op' = "start"
  /\ poll' = [cur |-> <<artist, title>>, prev |-> poll.cur, starts |-> 1]
  /\ res' = NoRes /\ chk' = NoChk
  /\ live' = [live EXCEPT !.session = <<artist, title>>]
  /\ UNCHANGED <<parsed_lyrics, ts_list, curr_text, files, fetched, failedKeys>>

\* lines 26-35 and 84-96: the provider replies (or the request fails), fetch_lyrics
\* returns and the iteration goes on; meanwhile the session has come to report track now_playing
CompleteFetch(o, now_playing) ==
  /\ Suspended
  /\ LET f == inflight[1]
         raw == FetchReturn(o)
         doc == Document(raw)
     IN  /\ files' = CacheAfter(files, f.artist, f.title, o)
         /\ fetched' = IF files' # files
                       THEN [k \in DOMAIN files' |->
                               IF k = Filename(f.artist, f.title) THEN o.synced ELSE fetched[k]]
                       ELSE fetched
         /\ res' = [key |-> Filename(f.artist, f.title), prior |-> f.prior,
                    calls |-> f.calls, ret |-> raw]
         /\ failedKeys' = IF Truthy(raw) THEN failedKeys
                          ELSE failedKeys \cup {Filename(f.artist, f.title)}
         /\ live' = [live EXCEPT !.doc = <<f.artist, f.title>>, !.session = now_playing]
         /\ \E status \in Statuses :
              \E now \in Readings(status) :
                InstallAndCheck(doc, <<>>, status, f.position, f.last_updated, now)
  /\ inflight' = Tail(inflight)
  /\ op' = "complete"
  /\ UNCHANGED <<last_id, netCalls, poll>>

Next ==
  \/ PollNoSession
  \/ \E app \in AppIds : PollWrongSource(app)
  \/ \E app \in AppIds, tr \in Tracks, status \in Statuses, position \in Positions,
        last_updated \in Captures :
       \E now \in Readings(status) :
         PollTracking(app, tr[1], tr[2], status, position, last_updated, now)
  \/ \E app \in AppIds, tr \in Tracks, album \in Albums, duration \in EndTimes :
       PollTrackingCached(app, tr[1], tr[2], album, duration)
  \/ \E app \in AppIds, tr \in Tracks, album \in Albums, duration \in EndTimes,
        position \in Positions, last_updated \in Captures :
       StartFetch(app, tr[1], tr[2], album, duration, position, last_updated)
  \/ \E o \in Replies, now_playing \in Tracks : CompleteFetch(o, now_playing)

Spec == Init /\ [][Next]_vars

\* the request of line 26 ends within its timeout, so a suspended call returns
SpecLive ==
  Spec /\ WF_vars(\E o \in Replies, now_playing \in Tracks : CompleteFetch(o, now_playing))

----------------------------------------------------------------------------
(* The lyric document on its own: parse_lrc and the lookup over a set of raw texts *)

LineSet ==
  { TagA \o <<"a">>, TagA \o <<"b">>, TagB \o <<"a">>, TagA, <<"[", "a", "]">> }

\* the texts of n lines of LineSet, each line ended by \n
RECURSIVE TextsOf(_)
TextsOf(n) ==
  IF n = 0 THEN {<<>>}
  ELSE {t \o l \o <<"\n">> : t \in TextsOf(n - 1), l \in LineSet}

RawTexts == UNION {TextsOf(n) : n \in 1..MaxLines}

\* fetch_lyrics has returned a raw text
InitDoc ==
  /\ last_id = <<>> /\ parsed_lyrics = <<>> /\ ts_list = <<>>
  /\ curr_text = <<>> /\ is_fetching = FALSE
  /\ inflight = <<>>
  /\ files = <<>>
  /\ netCalls = 0
  /\ fetched = <<>>
  /\ sink = [last |-> <<>>, step |-> <<>>]
  /\ op = "init"
  /\ poll = [cur |-> NoTrack, prev |-> NoTrack, starts |-> 0]
  /\ \E raw \in RawTexts : res = [key |-> <<>>, prior |-> FALSE, calls |-> 0, ret |-> raw]
  /\ chk = NoChk
  /\ live = [doc |-> NoTrack, session |-> NoTrack]
  /\ failedKeys = {}

\* lines 84-86 for the raw text
ParseStep ==
  /\ op = "init"
  /\ parsed_lyrics' = Document(res.ret).parsed
  /\ ts_list' = Document(res.ret).ts
  /\ curr_text' = <<>>
  /\ op' = "parse"
  /\ Emit(<<>>)
  /\ UNCHANGED <<last_id, is_fetching, inflight, files, netCalls, fetched, poll, res, chk,
                 live, failedKeys>>

\* lines 92-96 for the estimated position pos
LookupStep(pos) ==
  /\ op \in {"parse", "lookup"}
  /\ LET c == PositionCheck(parsed_lyrics, ts_list, curr_text, Playing, pos, 0, 0)
     IN  /\ curr_text' = c.text
         /\ Emit(c.emits)
         /\ chk' = [ran |-> TRUE, status |-> Playing, position |-> pos, last_updated |-> 0,
                    now |-> 0, pre |-> curr_text,
                    stale |-> Len(ts_list) # Len(parsed_lyrics)]
  /\ op' = "lookup"
  /\ UNCHANGED <<last_id, parsed_lyrics, ts_list, is_fetching, inflight, files, netCalls,
                 fetched, poll, res, live, failedKeys>>

QueryPositions == {50 * i : i \in -1..MaxQuery}

NextDoc == ParseStep \/ \E pos \in QueryPositions : LookupStep(pos)

SpecDoc == InitDoc /\ [][NextDoc]_vars

----------------------------------------------------------------------------
(* The lyric document as the design states it *)

\* forward linear scan: the text of the last entry with timestamp <= pos
RECURSIVE LinearScan(_, _, _)
LinearScan(doc, pos, best) ==
  IF doc = <<>> THEN best
  ELSE LinearScan(Tail(doc), pos, IF doc[1][1] <= pos THEN doc[1][2] ELSE best)

ActiveLine(doc, pos) == LinearScan(doc, pos, Sentinel)

\* a step in which the position check of lines 88-96 ran
Checked == op \in {"track", "cached", "complete"}

\* a step after which a document is installed
Installed == op \in {"track", "cached", "complete", "parse", "lookup"}

\* x put into s, sorted by timestamp, after every entry of the same or a lower timestamp
RECURSIVE InsertByTimestamp(_, _)
InsertByTimestamp(s, x) ==
  IF s = <<>> THEN <<x>>
  ELSE IF x[1] < s[1][1] THEN <<x>> \o s
  ELSE <<s[1]>> \o InsertByTimestamp(Tail(s), x)

\* the entries in ascending timestamp order, equal timestamps in their original order
RECURSIVE StableByTimestamp(_)
StableByTimestamp(s) ==
  IF s = <<>> THEN <<>>
  ELSE InsertByTimestamp(StableByTimestamp(SubSeq(s, 1, Len(s) - 1)), s[Len(s)])

\* no two adjacent elements of s are equal
NoRepeat(s) == \A i \in 1..(Len(s) - 1) : s[i] # s[i + 1]

\* some poll of the media session
PollStep ==
  \/ PollNoSession
  \/ \E app \in AppIds : PollWrongSource(app)
  \/ \E app \in AppIds, tr \in Tracks, status \in Statuses, position \in Positions,
        last_updated \in Captures :
       \E now \in Readings(status) :
         PollTracking(app, tr[1], tr[2], status, position, last_updated, now)
  \/ \E app \in AppIds, tr \in Tracks, album \in Albums, duration \in EndTimes :
       PollTrackingCached(app, tr[1], tr[2], album, duration)
  \/ \E app \in AppIds, tr \in Tracks, album \in Albums, duration \in EndTimes,
        position \in Positions, last_updated \in Captures :
       StartFetch(app, tr[1], tr[2], album, duration, position, last_updated)

\* the notifications the last step sent before its position check
SentBeforeCheck == IF op = "cached" THEN 1 ELSE 0

\* the position check of the last step sent a notification
CheckSent == Len(sink.step) = SentBeforeCheck + 1

\* the position check of the last step ran with transport state playing
PlayingCheck == Checked /\ chk.ran /\ chk.status = Playing

\* ts_list is the non-decreasing sequence of the timestamps of parsed_lyrics
Aligned ==
  /\ Len(ts_list) = Len(parsed_lyrics)
  /\ \A i \in 1..Len(ts_list) : ts_list[i] = parsed_lyrics[i][1]
  /\ \A i \in 1..Len(ts_list) : \A j \in i..Len(ts_list) : ts_list[i] <= ts_list[j]

\* a Tracking poll can go to the lookup without a fetch
LookupWithoutFetch ==
  ~Suspended /\ \E tr \in Tracks : ~ShouldFetch(SongId(tr[1], tr[2]))

----------------------------------------------------------------------------
(* Claims *)

\* C1: for every installed document and every query position the bisect_right
\* lookup yields the text of an entry with the greatest timestamp <= position,
\* the sentinel "..." when there is none (also for the empty document), and
\* agrees with the linear scan.
C1_LookupIsLinearScan ==
  Installed =>
    \A pos \in QueryPositions :
      LET r == NewLyric(parsed_lyrics, ts_list, pos)
          le == {i \in 1..Len(parsed_lyrics) : parsed_lyrics[i][1] <= pos}
      IN  /\ r = ActiveLine(parsed_lyrics, pos)
          /\ IF le = {} THEN r = Sentinel
             ELSE \E i \in le : /\ parsed_lyrics[i][2] = r
                                /\ \A j \in le : parsed_lyrics[j][1] <= parsed_lyrics[i][1]

\* a lookup at exactly the timestamp that two entries of different text share
C1_Witness ==
  /\ op = "lookup"
  /\ Len(parsed_lyrics) = 3
  /\ chk.position = parsed_lyrics[2][1]
  /\ parsed_lyrics[1][1] = parsed_lyrics[2][1]
  /\ parsed_lyrics[1][2] # parsed_lyrics[2][2]
  /\ parsed_lyrics[3][1] > chk.position
  /\ curr_text = parsed_lyrics[2][2]

\* C2: a Tracking poll that reports the (artist, title) of the poll before it
\* starts no fetch, also when the fetch for that track yielded no lyrics.
C2_SameTrackNoRefetch ==
  (poll.cur # NoTrack /\ poll.prev = poll.cur) => poll.starts = 0

\* a repeated poll of a track whose fetch failed
C2_Witness ==
  /\ op = "track" /\ poll.cur # NoTrack /\ poll.prev = poll.cur
  /\ last_id = SongId(poll.cur[1], poll.cur[2])
  /\ parsed_lyrics = <<>> /\ netCalls > 0

\* C3: a Tracking poll that follows a Tracking poll with a different
\* (artist, title) starts exactly one fetch.
C3_ChangedTrackFetches ==
  (poll.cur # NoTrack /\ poll.prev # NoTrack /\ poll.prev # poll.cur) => poll.starts = 1

\* C4: no two consecutive notifications carry the same text.
C4_NoRepeatedNotification == NoRepeat(sink.last \o sink.step)

\* C5: at most one fetch_lyrics call is in flight.
C5_OneFetchInFlight == Len(inflight) <= 1

\* a fetch in flight
C5_Witness == Len(inflight) = 1 /\ is_fetching /\ op = "start"

\* C6: while a fetch is in flight the loop can poll the media session.
C6_PollsWhileFetching == Len(inflight) > 0 => ENABLED PollStep

\* C7: a resolve of a key whose fetch succeeded before returns exactly the text
\* that fetch returned and sends no request to the provider.
C7_CacheRoundTrip ==
  res.prior => (res.ret = fetched[res.key] /\ netCalls = res.calls)

\* C8: a position check with a transport state other than playing sends no
\* notification and leaves the current line as it was before the check.
C8_NotPlayingNoChange ==
  (Checked /\ chk.ran /\ chk.status # Playing) =>
    /\ curr_text = chk.pre
    /\ sink.step = (IF op = "cached" THEN <<Searching>> ELSE <<>>)

\* a paused poll whose estimated position lies on another line than the current one
C8_Witness ==
  /\ op = "track" /\ chk.ran /\ chk.status # Playing
  /\ parsed_lyrics # <<>>
  /\ curr_text # <<>>
  /\ ActiveLine(parsed_lyrics, chk.position + (chk.now - chk.last_updated)) # curr_text

\* C9: after a position check with transport state playing the current line is
\* ActiveLine(document, p + (now - t)) for the position p and capture time t of
\* the timeline read in that poll.
C9_InterpolatedPosition ==
  (Checked /\ chk.ran /\ chk.status = Playing) =>
    curr_text = ActiveLine(parsed_lyrics, chk.position + (chk.now - chk.last_updated))

\* two seconds after the capture the line is another one than at the captured position
C9_Witness ==
  /\ Checked /\ chk.ran /\ chk.status = Playing
  /\ chk.position > 0 /\ chk.now - chk.last_updated = 200
  /\ curr_text = ActiveLine(parsed_lyrics, chk.position + 200)
  /\ curr_text # ActiveLine(parsed_lyrics, chk.position)

\* C10: the installed document holds the parsed entries in ascending timestamp
\* order, entries of equal timestamp in their order in the raw text.
C10_StableOrder ==
  (op \in {"cached", "complete", "parse", "lookup"} /\ Truthy(res.ret)) =>
    parsed_lyrics = StableByTimestamp(LyricsData(splitlines(res.ret)))

\* C11: a position check that sends a line of the document finds the document
\* resolved for the track the session reports at that moment.
C11_NoStaleLine ==
  ( /\ PlayingCheck /\ CheckSent
    /\ bisect_right(ts_list, TruePos(chk.position, chk.last_updated, chk.now)) > 0 )
    => live.doc = live.session

\* C12: the first position check with transport state playing after a fetch
\* completion (the current line is still cleared) sends a notification.
C12_FirstCheckEmits == (PlayingCheck /\ chk.pre = <<>>) => CheckSent

\* C13: a fetch in flight leads to none in flight and the flag cleared; a resolve
\* that returned None leaves an empty document, the flag cleared and the loop able
\* to poll; a playing position check on an empty document yields the sentinel.
C13_FetchCompletes ==
  /\ (Len(inflight) > 0) ~> (inflight = <<>> /\ ~is_fetching)
  /\ []((op = "complete" /\ res.ret = NoneVal) =>
          (parsed_lyrics = <<>> /\ ts_list = <<>> /\ ~is_fetching /\ ENABLED PollStep))
  /\ []((PlayingCheck /\ parsed_lyrics = <<>>) => curr_text = Sentinel)

\* a failed fetch was followed by a playing poll of the same track
C13_Witness ==
  /\ op = "track" /\ chk.status = Playing /\ ~is_fetching
  /\ parsed_lyrics = <<>> /\ curr_text = Sentinel
  /\ Filename(poll.cur[1], poll.cur[2]) \in failedKeys

\* C14: a file of the cache stays, with its content, in every step.
C14_CacheImmutable ==
  [][\A k \in DOMAIN files : k \in DOMAIN files' /\ files'[k] = files[k]]_vars

\* a resolve of a key that has a cache entry, with another entry beside it
C14_Witness == op = "cached" /\ res.prior /\ Cardinality(DOMAIN files) = 2

\* C15: after a poll without session the last notification sent is "Waiting for
\* Spotify...", after a poll of another application it is "Not Spotify".
C15_Placeholders ==
  /\ op = "nosession" => LastSent = <<Waiting>>
  /\ op = "wrongsource" => LastSent = <<NotSpotify>>

\* another application is polled while a lyric line is shown
C15_Witness ==
  /\ op = "wrongsource" /\ sink.step = <<NotSpotify>>
  /\ sink.last = << <<"b">> >>

\* C16: after a poll without session or of another application there is no track
\* identity, no lyric entry and no timestamp index, and any Tracking poll fetches.
C16_ClearedAfterInterruption ==
  op \in {"nosession", "wrongsource"} =>
    /\ last_id = <<>> /\ parsed_lyrics = <<>> /\ ts_list = <<>>
    /\ \A tr \in Tracks : ShouldFetch(SongId(tr[1], tr[2]))

\* C17: a resolve that returns None leaves the cache as it was, without a file
\* for its key; a later resolve of a key that failed and has no file sends a request.
C17_FailedLeavesCache ==
  [][ /\ (op' = "complete" /\ res'.ret = NoneVal) =>
           (files' = files /\ res'.key \notin DOMAIN files')
      /\ ( /\ op' \in {"start", "cached"}
           /\ Filename(poll'.cur[1], poll'.cur[2]) \in failedKeys \ DOMAIN files )
           => (op' = "start" /\ netCalls' = netCalls + 1) ]_vars

\* a request for a key whose earlier resolve failed
C17_Witness ==
  /\ op = "start" /\ netCalls = 2 /\ files = <<>>
  /\ Filename(inflight[1].artist, inflight[1].title) \in failedKeys

\* C18: wherever a position check does or can do the lookup, ts_list is
\* non-decreasing and aligned with parsed_lyrics, and the index is in range.
C18_IndexAligned ==
  (LookupWithoutFetch \/ PlayingCheck) =>
    /\ Aligned
    /\ \A pos \in QueryPositions : bisect_right(ts_list, pos) \in 0..Len(parsed_lyrics)

\* a lookup on a shorter document after another application left a longer index
C18_Witness ==
  /\ PlayingCheck /\ chk.stale
  /\ parsed_lyrics = <<>> /\ curr_text = Sentinel

====
